---- MODULE Spec2Model ----
(***************************************************************************)
(* Live captioning pipeline of jp_fixed/main_medium.py: the PortAudio      *)
(* callback audio_cb (producer), the queue aud_q and the transcriber       *)
(* thread (consumer: VAD scan, chunk accumulation, recognition call,       *)
(* post-processing and duplicate/filler suppression).                      *)
(*                                                                         *)
(* Audio bytes are modelled in units of UnitBytes bytes and a byte string  *)
(* is the sequence of its units.  A unit carries two history fields: the   *)
(* mean absolute amplitude (level) of the capture block it came from, and  *)
(* its place (id) in the stream of enqueued units, counted from the first  *)
(* unit that has not been cut into a frame yet.                            *)
(*                                                                         *)
(* processed_frames and start_time (lines 85-86, 136-141) only feed the    *)
(* --debug throughput line on stderr and are left out.                     *)
(***************************************************************************)
EXTENDS Integers, Sequences, FiniteSets, TLC

\* ---------------------------------------------------------------- constants
SAMPLE_RATE == 16000
FRAME_MS == 30
CHUNK_MS == 2000
BYTES_PER_FRAME == (SAMPLE_RATE * 2 * FRAME_MS) \div 1000
MIN_LEVEL == 3000
LevelScale == 32768

\* argparse default of --wait_timeout_ms (the option was not given)
None == -1

\* the arguments transcriber passes to post_process, and the parameters
\* post_process declares (none of them has a default)
post_process_args == 1
post_process_params == 2

\* the three filler phrases of lines 59-63, in short romanised form (the
\* third is the first with a full stop)
FILLER == {"goshichou", "saigomade", "goshichou."}

\* ------------------------------------------------------------------- bounds
UnitsPerFrame == 2       \* granularity of byte strings: units in one frame
MaxQueue == 2            \* cap on the (unbounded) queue length
MaxTimeoutFrames == 1    \* largest configured timeout, in frames
MaxSegs == 2             \* most segments the engine returns for a chunk
MaxRows == 2             \* most rows of a dictionary file
MaxRules == 2            \* most rules of a list given to post_process
MaxTextLen == 3          \* most characters of a (short) text

UnitBytes == BYTES_PER_FRAME \div UnitsPerFrame

\* sizes of the capture blocks (blocksize=0 leaves them to the device), in
\* units: less than a frame and more than a frame
BlockUnits == {1, UnitsPerFrame + 1}

\* values of --wait_timeout_ms: omitted, 0, whole frames and 1 ms more
Timeouts ==
    {None, 0} \cup {k * FRAME_MS + d : k \in 1..MaxTimeoutFrames, d \in {0, 1}}

\* mean absolute sample value of a capture block (int16 stream): of a
\* device that is mute or at the floor, and of one that is mute or just
\* below the floor
LoudLevels == {0, MIN_LEVEL}
QuietLevels == {0, MIN_LEVEL - 1}

RawTexts == {"a", " a ", "goshichou"}

VARIABLES
    WAIT_TIMEOUT_MS,  \* args.wait_timeout_ms
    aud_q,            \* queue of blocks; a block is a sequence of units
    mic_levels,       \* amplitudes of the blocks the device delivers
    put_id,           \* id of the next unit audio_cb enqueues
    buf,              \* transcriber: bytes not yet cut into frames
    pc,               \* transcriber: position in the loop
    speech_len,       \* transcriber: len(speech)
    silence_ms,       \* transcriber: silence_ms
    limit_ms,         \* transcriber: limit_ms
    frame,            \* transcriber: the frame last cut from buf (frame / nxt)
    all_speech,       \* every frame of the open chunk was classified speech
    silent_run,       \* non-speech frames in a row at the end of the chunk
    result,           \* the segments model.transcribe returned last
    segments,         \* the segments of result not yet iterated
    last_line,        \* transcriber: last_line
    printed,          \* lines written to standard output
    mark,             \* lines printed before the last chunk was dispatched
    in_call,          \* number of model.transcribe calls in progress
    failure,          \* exception that ended the transcriber (or main) thread
    test_wav,         \* __main__: os.path.exists("test.wav")
    main_pc,          \* __main__: position of the main thread
    variant,          \* which copy of the post-processing module is used
    dict_file,        \* load_tsv_dict: the rows of the file at path, or NoFile
    row_i,            \* load_tsv_dict: rows the reader has yielded
    rules,            \* load_tsv_dict: rules
    load_pc,          \* load_tsv_dict: position
    ruleset,          \* the list load_tsv_dict returned / post_process is given
    raw_text,         \* post_process: text as normalized on entry
    text,             \* post_process: text
    rule_k,           \* post_process: rules the for loop has applied
    fired,            \* indices of the rules that matched at their turn
    post_pc,          \* post_process: position
    outputs           \* the strings post_process returned, in order

vars == <<WAIT_TIMEOUT_MS, mic_levels, aud_q, put_id, buf, pc, speech_len, silence_ms,
          limit_ms, frame, all_speech, silent_run, result, segments, last_line,
          printed, mark, in_call, failure, test_wav, main_pc, variant,
          dict_file, row_i, rules, load_pc, ruleset, raw_text, text, rule_k,
          fired, post_pc, outputs>>

config == <<WAIT_TIMEOUT_MS, mic_levels>>
producer == <<aud_q, put_id>>
segmenter == <<buf, speech_len, silence_ms, limit_ms, frame, all_speech,
               silent_run>>
output == <<result, segments, last_line, printed, mark>>
entry == <<test_wav, main_pc>>
loader == <<variant, dict_file, row_i, rules, load_pc, ruleset>>
normalizer == <<raw_text, text, rule_k, fired, post_pc, outputs>>
offline == <<loader, normalizer>>

\* ---------------------------------------------------------------- helpers
Len8(s) == Len(s) * UnitBytes          \* len() of a byte string

\* bytes(indata): n units of a block of the given level, ids from first on
Block(n, level, first) == [i \in 1..n |-> [id |-> first + i - 1, level |-> level]]

\* ids count from the consumption point: when k units are cut from buf the
\* ids of all units still in flight go down by k
Rebase(b, k) == [i \in 1..Len(b) |-> [b[i] EXCEPT !.id = @ - k]]
RebaseQ(q, k) == [j \in 1..Len(q) |-> Rebase(q[j], k)]

\* b[:n] and b[n:] for a byte count n that is a multiple of UnitBytes
\* (Suffix_reset: the faulty variant that empties the buffer)
Suffix_reset(b, n) == <<>>
Prefix(b, n) == SubSeq(b, 1, IF Len8(b) < n THEN Len(b) ELSE n \div UnitBytes)
Suffix(b, n) == SubSeq(b, (IF Len8(b) < n THEN Len(b) ELSE n \div UnitBytes) + 1, Len(b))

\* audio_cb line 75: the amplitude gate
GateDrops(level) == level * LevelScale < MIN_LEVEL

\* queue.Queue: put appends, get removes the oldest
\* (QFront_newest: the faulty variant that takes the newest)
QPut(q, b) == Append(q, b)
QFront_newest(q) == q[Len(q)]
QFront(q) == Head(q)
QRest(q) == Tail(q)

\* transcriber line 100
\* (LimitMs_frame: the faulty variant that falls back to FRAME_MS)
LimitMs_frame(timeout) ==
    IF timeout = None \/ timeout = 0 THEN FRAME_MS ELSE timeout
LimitMs(timeout) == IF timeout = None \/ timeout = 0 THEN CHUNK_MS ELSE timeout

\* transcriber line 113 (and two faulty variants: > for the silence test,
\* no duration ceiling)
FlushCond_strict(sil, lim, n) == (sil > lim) \/ (n * FRAME_MS >= CHUNK_MS)
FlushCond_no_ceiling(sil, lim, n) == sil >= lim
FlushCond(sil, lim, n) == (sil >= lim) \/ (n * FRAME_MS >= CHUNK_MS)

\* seg.text.strip()
Strip(raw) == IF raw = " a " THEN "a" ELSE raw

\* the line lines 128-129 make of a segment text: the texts of RawTexts are
\* left as they are by every normalization step of post_process
Candidate(raw) == Strip(raw)

SegLists == UNION {[1..n -> RawTexts] : n \in 0..MaxSegs}

\* webrtcvad accepts frames of 10, 20 or 30 ms only; for another length
\* is_speech answers or raises, depending on the length
VadOutcomes(f) ==
    IF Len8(f) = BYTES_PER_FRAME THEN {"speech", "silence"}
    ELSE {"speech", "silence", "raise"}

\* ------------------------------------------------------------------- Init
\* the transcriber and the queue before the first block
PipelineInit ==
    /\ aud_q = <<>>
    /\ put_id = 0
    /\ buf = <<>>
    /\ pc = "get"
    /\ speech_len = 0
    /\ silence_ms = 0
    /\ limit_ms = 0
    /\ frame = <<>>
    /\ all_speech = TRUE
    /\ silent_run = 0
    /\ result = <<>>
    /\ segments = <<>>
    /\ last_line = ""
    /\ printed = <<>>
    /\ mark = 0
    /\ in_call = 0
    /\ failure = "none"

\* load_tsv_dict and post_process not called
LoaderIdle ==
    /\ variant = "postprocess"
    /\ dict_file = [exists |-> FALSE, rows |-> <<>>]
    /\ row_i = 0
    /\ rules = <<>>
    /\ load_pc = "idle"
    /\ ruleset = <<>>

NormalizerIdle ==
    /\ raw_text = <<>>
    /\ text = <<>>
    /\ rule_k = 0
    /\ fired = {}
    /\ post_pc = "idle"
    /\ outputs = <<>>

\* live mode: no test.wav, realtime_caption has started the transcriber
\* thread and opened the stream
Init ==
    /\ WAIT_TIMEOUT_MS \in Timeouts
    \* the quiet device is explored with the shortest timeout only
    /\ mic_levels \in IF WAIT_TIMEOUT_MS = FRAME_MS
                      THEN {LoudLevels, QuietLevels} ELSE {LoudLevels}
    /\ PipelineInit
    /\ test_wav = FALSE
    /\ main_pc = "live"
    /\ LoaderIdle
    /\ NormalizerIdle

\* --------------------------------------------------------------- producer
\* audio_cb: runs on the audio thread whatever the transcriber is doing;
\* the main thread sleeps in realtime_caption and never stops the stream
audio_cb ==
    /\ Len(aud_q) < MaxQueue
    /\ \E n \in BlockUnits, level \in mic_levels :
         IF GateDrops(level)
         THEN UNCHANGED producer
         ELSE /\ aud_q' = QPut(aud_q, Block(n, level, put_id))
              /\ put_id' = put_id + n
    /\ UNCHANGED <<entry, offline, config, segmenter, pc, output, in_call, failure>>

\* --------------------------------------------------------------- consumer
\* line 89: buf += aud_q.get()
Get ==
    /\ pc = "get"
    /\ aud_q # <<>>
    /\ buf' = buf \o QFront(aud_q)
    /\ aud_q' = QRest(aud_q)
    /\ pc' = "scan"
    /\ UNCHANGED <<entry, offline, config, put_id, speech_len, silence_ms, limit_ms, frame,
                   all_speech, silent_run, output, in_call, failure>>

\* faulty variant of Scan: the test of line 93 is missing and a frame of
\* either verdict opens a chunk
Scan_opens_on_any ==
    /\ pc = "scan"
    /\ IF Len8(buf) >= BYTES_PER_FRAME
       THEN /\ frame' = Prefix(buf, BYTES_PER_FRAME)
            /\ buf' = Rebase(Suffix(buf, BYTES_PER_FRAME), Len(frame'))
            /\ aud_q' = RebaseQ(aud_q, Len(frame'))
            /\ put_id' = put_id - Len(frame')
            /\ \E v \in VadOutcomes(frame') :
                 IF v = "raise"
                 THEN /\ pc' = "dead"
                      /\ failure' = "vad"
                      /\ UNCHANGED <<speech_len, silence_ms, limit_ms,
                                     all_speech, silent_run>>
                 ELSE /\ speech_len' = 1
                      /\ silence_ms' = 0
                      /\ limit_ms' = LimitMs(WAIT_TIMEOUT_MS)
                      /\ all_speech' = (v = "speech")
                      /\ silent_run' = IF v = "speech" THEN 0 ELSE 1
                      /\ pc' = "acc"
                      /\ UNCHANGED failure
       ELSE /\ pc' = "get"
            /\ UNCHANGED <<segmenter, producer, failure>>
    /\ UNCHANGED <<entry, offline, config, output, in_call>>

\* lines 90-100: one iteration of the scan loop
Scan ==
    /\ pc = "scan"
    /\ IF Len8(buf) >= BYTES_PER_FRAME
       THEN /\ frame' = Prefix(buf, BYTES_PER_FRAME)
            /\ buf' = Rebase(Suffix(buf, BYTES_PER_FRAME), Len(frame'))
            /\ aud_q' = RebaseQ(aud_q, Len(frame'))
            /\ put_id' = put_id - Len(frame')
            /\ \E v \in VadOutcomes(frame') :
                 CASE v = "silence" ->
                        UNCHANGED <<pc, speech_len, silence_ms, limit_ms,
                                    all_speech, silent_run, failure>>
                   [] v = "speech" ->
                        /\ speech_len' = 1
                        /\ silence_ms' = 0
                        /\ limit_ms' = LimitMs(WAIT_TIMEOUT_MS)
                        /\ all_speech' = TRUE
                        /\ silent_run' = 0
                        /\ pc' = "acc"
                        /\ UNCHANGED failure
                   [] v = "raise" ->
                        /\ pc' = "dead"
                        /\ failure' = "vad"
                        /\ UNCHANGED <<speech_len, silence_ms, limit_ms,
                                       all_speech, silent_run>>
       ELSE /\ pc' = "get"
            /\ UNCHANGED <<segmenter, producer, failure>>
    /\ UNCHANGED <<entry, offline, config, output, in_call>>

\* buf after the conditional aud_q.get() of lines 102-103
Refill(b, q) == IF Len8(b) < BYTES_PER_FRAME THEN b \o QFront(q) ELSE b

\* faulty variant of Accumulate: a speech frame does not reset silence_ms
Accumulate_no_reset ==
    /\ pc = "acc"
    /\ Len8(buf) < BYTES_PER_FRAME => aud_q # <<>>
    /\ frame' = Prefix(Refill(buf, aud_q), BYTES_PER_FRAME)
    /\ buf' = Rebase(Suffix(Refill(buf, aud_q), BYTES_PER_FRAME), Len(frame'))
    /\ aud_q' = RebaseQ(IF Len8(buf) < BYTES_PER_FRAME THEN QRest(aud_q) ELSE aud_q,
                        Len(frame'))
    /\ put_id' = put_id - Len(frame')
    /\ speech_len' = speech_len + 1
    /\ \E v \in VadOutcomes(frame') :
         CASE v = "raise" ->
                /\ pc' = "dead"
                /\ failure' = "vad"
                /\ UNCHANGED <<silence_ms, all_speech, silent_run>>
           [] OTHER ->
                /\ silence_ms' = IF v = "speech" THEN silence_ms
                                 ELSE silence_ms + FRAME_MS
                /\ all_speech' = (all_speech /\ v = "speech")
                /\ silent_run' = IF v = "speech" THEN 0 ELSE silent_run + 1
                /\ pc' = IF FlushCond(silence_ms', limit_ms, speech_len')
                         THEN "infer" ELSE "acc"
                /\ UNCHANGED failure
    /\ UNCHANGED <<entry, offline, config, limit_ms, output, in_call>>

\* lines 101-114: one iteration of the accumulation loop
Accumulate ==
    /\ pc = "acc"
    /\ Len8(buf) < BYTES_PER_FRAME => aud_q # <<>>
    /\ frame' = Prefix(Refill(buf, aud_q), BYTES_PER_FRAME)
    /\ buf' = Rebase(Suffix(Refill(buf, aud_q), BYTES_PER_FRAME), Len(frame'))
    /\ aud_q' = RebaseQ(IF Len8(buf) < BYTES_PER_FRAME THEN QRest(aud_q) ELSE aud_q,
                        Len(frame'))
    /\ put_id' = put_id - Len(frame')
    /\ speech_len' = speech_len + 1
    /\ \E v \in VadOutcomes(frame') :
         CASE v = "raise" ->
                /\ pc' = "dead"
                /\ failure' = "vad"
                /\ UNCHANGED <<silence_ms, all_speech, silent_run>>
           [] OTHER ->
                /\ silence_ms' = IF v = "speech" THEN 0 ELSE silence_ms + FRAME_MS
                /\ all_speech' = (all_speech /\ v = "speech")
                /\ silent_run' = IF v = "speech" THEN 0 ELSE silent_run + 1
                /\ pc' = IF FlushCond(silence_ms', limit_ms, speech_len')
                         THEN "infer" ELSE "acc"
                /\ UNCHANGED failure
    /\ UNCHANGED <<entry, offline, config, limit_ms, output, in_call>>

\* faulty variant of TranscribeCall: the call is started and not awaited
TranscribeCall_async ==
    /\ pc = "infer"
    /\ pc' = "scan"
    /\ in_call' = in_call + 1
    /\ mark' = Len(printed)
    /\ UNCHANGED <<entry, offline, config, producer, segmenter, result, segments, last_line,
                   printed, failure>>

\* lines 117-126: model.transcribe is called with the samples of speech
TranscribeCall ==
    /\ pc = "infer"
    /\ pc' = "transcribing"
    /\ in_call' = in_call + 1
    /\ mark' = Len(printed)
    /\ UNCHANGED <<entry, offline, config, producer, segmenter, result, segments, last_line,
                   printed, failure>>

\* the call returns its segments; with none the for loop of line 127 is
\* over at once and the scan loop goes on
TranscribeReturn ==
    /\ pc = "transcribing"
    /\ in_call' = in_call - 1
    /\ \E segs \in SegLists :
         /\ result' = segs
         /\ segments' = segs
         /\ pc' = IF segs = <<>> THEN "scan" ELSE "segments"
    /\ UNCHANGED <<entry, offline, config, producer, segmenter, last_line, printed, mark,
                   failure>>

\* the call raises: the exception leaves transcriber and ends its thread
TranscribeRaise ==
    /\ pc = "transcribing"
    /\ in_call' = in_call - 1
    /\ pc' = "dead"
    /\ failure' = "engine"
    /\ UNCHANGED <<entry, offline, config, producer, segmenter, output>>

\* lines 127-133: one iteration of the for loop.  post_process is called
\* with post_process_args arguments; when that is not what it declares the
\* call raises TypeError and the thread ends before line 130
Segment ==
    /\ pc = "segments"
    /\ IF post_process_args # post_process_params
       THEN /\ pc' = "dead"
            /\ failure' = "TypeError"
            /\ UNCHANGED output
       ELSE /\ LET line == Candidate(Head(segments))
                IN  IF line \in FILLER \/ line = last_line
                    THEN UNCHANGED <<last_line, printed>>
                    ELSE /\ last_line' = line
                         /\ printed' = Append(printed, line)
            /\ segments' = Tail(segments)
            /\ pc' = IF Tail(segments) = <<>> THEN "scan" ELSE "segments"
            /\ UNCHANGED <<result, mark, failure>>
    /\ UNCHANGED <<entry, offline, config, producer, segmenter, in_call>>

Next ==
    \/ audio_cb
    \/ Get
    \/ Scan
    \/ Accumulate
    \/ TranscribeCall
    \/ TranscribeReturn
    \/ TranscribeRaise
    \/ Segment

Spec == Init /\ [][Next]_vars

\* the live pipeline with its scheduling: the transcriber thread is run
\* whenever it can take a step, a recognition call in progress comes to an
\* end, and the device goes on delivering blocks that pass the gate
SpecFair ==
    /\ Init
    /\ [][Next]_vars
    /\ WF_vars(audio_cb)
    /\ WF_vars(Get)
    /\ WF_vars(Scan)
    /\ WF_vars(Accumulate)
    /\ WF_vars(TranscribeCall)
    /\ WF_vars(TranscribeReturn)
    /\ WF_vars(Segment)

\* ------------------------------------------------------------ __main__
\* print("ファイル結果:", txt): the line with the result marker in front
MARKER == "file result:"
Marked(txt) == <<MARKER, txt>>

\* line 162: with test.wav the file is read and model.transcribe is called
\* on its samples (lines 163-172); without it realtime_caption starts the
\* transcriber thread and opens the stream (lines 146-154)
EntryPoint ==
    /\ main_pc = "start"
    /\ IF test_wav
       THEN main_pc' = "batch_call" /\ in_call' = in_call + 1
       ELSE main_pc' = "live" /\ UNCHANGED in_call
    /\ UNCHANGED <<test_wav, offline, config, producer, segmenter, pc,
                   output, failure>>

\* the call on the file returns its segments
BatchReturn ==
    /\ main_pc = "batch_call"
    /\ in_call' = in_call - 1
    /\ \E segs \in SegLists :
         /\ result' = segs
         /\ segments' = segs
         /\ main_pc' = IF segs = <<>> THEN "done" ELSE "batch_segments"
    /\ UNCHANGED <<test_wav, offline, config, producer, segmenter, pc,
                   last_line, printed, mark, failure>>

\* the call on the file raises: the exception ends the main thread
BatchRaise ==
    /\ main_pc = "batch_call"
    /\ in_call' = in_call - 1
    /\ main_pc' = "dead"
    /\ failure' = "engine"
    /\ UNCHANGED <<test_wav, offline, config, producer, segmenter, pc,
                   output>>

\* lines 173-177: one iteration of the for loop; post_process is called as
\* in the transcriber, with one argument
BatchSegment ==
    /\ main_pc = "batch_segments"
    /\ IF post_process_args # post_process_params
       THEN /\ main_pc' = "dead"
            /\ failure' = "TypeError"
            /\ UNCHANGED output
       ELSE /\ LET txt == Candidate(Head(segments))
                IN  IF txt \notin FILLER
                    THEN printed' = Append(printed, Marked(txt))
                    ELSE UNCHANGED printed
            /\ segments' = Tail(segments)
            /\ main_pc' = IF Tail(segments) = <<>> THEN "done"
                          ELSE "batch_segments"
            /\ UNCHANGED <<result, last_line, mark, failure>>
    /\ UNCHANGED <<test_wav, offline, config, producer, segmenter, pc,
                   in_call>>

\* the stream and the transcriber thread, once realtime_caption runs
Live == main_pc = "live" /\ Next

\* the program from its entry point, with and without test.wav
MainInit ==
    /\ WAIT_TIMEOUT_MS \in Timeouts
    /\ mic_levels \in IF WAIT_TIMEOUT_MS = FRAME_MS
                      THEN {LoudLevels, QuietLevels} ELSE {LoudLevels}
    /\ PipelineInit
    /\ test_wav \in BOOLEAN
    /\ main_pc = "start"
    /\ LoaderIdle
    /\ NormalizerIdle

MainNext == EntryPoint \/ BatchReturn \/ BatchRaise \/ BatchSegment \/ Live

SpecMain == MainInit /\ [][MainNext]_vars

\* ------------------------------------------------------- load_tsv_dict
\* A string is the sequence of its characters.  The 28 entries of
\* FALLBACK_DICT, in their order; each pattern and replacement is written
\* as one symbol (the entries are not applied in this model), is_regex is 1
\* in all of them
FallbackPatterns ==
    <<"teso", "sanso", "supo.?2", "supo-?ni?", "SpO2 s*(d+)", "c ?r ?p",
      "c garu p 12 3", "reba-furokisa.*", "naiku", "jakuhaku",
      "hatte9?1200", "4rittoru", "doseki", "miriguramugotode", "c s*d",
      "migishitaba", "(d+)no(d+)", "miriguramumaimai",
      "miriguramumaideshirittoru", "CRP (d.+) miriguramumaideshirittoru",
      "CRP (d.+) mg/?dL", "(d+)miriguramu", "(d+) s*mg b", "(d+)miri",
      "(d+) s*pa-sento", "(d+)%", "(d+)zenkaku%", "SpO2 s*(d+) s*%">>
FALLBACK_DICT ==
    [i \in 1..Len(FallbackPatterns) |->
        << <<FallbackPatterns[i]>>, <<"for", FallbackPatterns[i]>>, 1 >>]

\* the two copies of the module: src/postprocess.py and src/jp_fixed/main.py
Variants == {"postprocess", "jp_fixed"}

\* rows csv.reader yields: a blank line, a comment, a row with the pattern
\* only, one without is_regex, two full rows, one with a flag that is no
\* number, one with a note
DictRows ==
    { <<>>,
      << <<"#", "n">> >>,
      << <<"a">> >>,
      << <<"a">>, <<"b">> >>,
      << <<"a">>, <<"b">>, <<"0">> >>,
      << <<"b">>, <<"c">>, <<"1">> >>,
      << <<"a">>, <<"b">>, <<"x">> >>,
      << <<"a">>, <<"b">>, <<"0">>, <<"n">> >> }
DictFiles ==
    {[exists |-> FALSE, rows |-> <<>>]} \cup
    {[exists |-> TRUE, rows |-> r] :
        r \in UNION {[1..n -> DictRows] : n \in 0..MaxRows}}

\* str.startswith for a one-character prefix
StartsWith(s, c) == s # <<>> /\ s[1] = c

\* int(s): the decimal digits of the fields; anything else is ValueError
Digits == {"0", "1"}
DigitOf(c) == IF c = "0" THEN 0 ELSE 1
IsIntText(s) == s # <<>> /\ \A i \in 1..Len(s) : s[i] \in Digits
RECURSIVE IntOf(_)
IntOf(s) ==
    IF Len(s) = 1 THEN DigitOf(s[1])
    ELSE 10 * IntOf(SubSeq(s, 1, Len(s) - 1)) + DigitOf(s[Len(s)])

\* line 72: rows the loop passes over
Skipped(row) == row = <<>> \/ StartsWith(row[1], "#")

\* line 74: pattern, repl, is_rx, *_ = row + ["", "0"]
Padded(row) == row \o << <<>>, <<"0">> >>

\* lines 76 / 87: return rules or FALLBACK_DICT
\* (OrFallback_none: the faulty variant without the fallback)
OrFallback_none(r) == r
OrFallback(r) == IF r = <<>> THEN FALLBACK_DICT ELSE r

\* lines 66-69: path.exists(), rules = [], the file is opened
LoadOpen ==
    /\ load_pc = "call"
    /\ IF dict_file.exists
       THEN load_pc' = "rows" /\ UNCHANGED ruleset
       ELSE load_pc' = "done" /\ ruleset' = FALLBACK_DICT
    /\ rules' = <<>>
    /\ UNCHANGED <<variant, dict_file, row_i, normalizer, entry, config,
                   producer, segmenter, pc, output, in_call, failure>>

\* lines 71-75: one iteration of the for loop.  int(is_rx) raises
\* ValueError for a text that is no number: src/jp_fixed/main.py catches it
\* and goes on (lines 82-86), src/postprocess.py does not and the call ends
LoadRow ==
    /\ load_pc = "rows"
    /\ row_i < Len(dict_file.rows)
    /\ row_i' = row_i + 1
    /\ LET row == dict_file.rows[row_i + 1]
       IN  IF Skipped(row)
           THEN UNCHANGED <<rules, load_pc>>
           ELSE IF IsIntText(Padded(row)[3])
           THEN /\ rules' = Append(rules, <<Padded(row)[1], Padded(row)[2],
                                           IntOf(Padded(row)[3])>>)
                /\ UNCHANGED load_pc
           ELSE /\ load_pc' = IF variant = "jp_fixed" THEN "rows" ELSE "raised"
                /\ UNCHANGED rules
    /\ UNCHANGED <<variant, dict_file, ruleset, normalizer, entry, config,
                   producer, segmenter, pc, output, in_call, failure>>

\* lines 76 / 87: the loop is over
LoadReturn ==
    /\ load_pc = "rows"
    /\ row_i = Len(dict_file.rows)
    /\ ruleset' = OrFallback(rules)
    /\ load_pc' = "done"
    /\ UNCHANGED <<variant, dict_file, row_i, rules, normalizer, entry,
                   config, producer, segmenter, pc, output, in_call, failure>>

\* load_tsv_dict called on a path, by either copy
DictInit ==
    /\ WAIT_TIMEOUT_MS = None
    /\ mic_levels = LoudLevels
    /\ PipelineInit
    /\ test_wav = FALSE
    /\ main_pc = "idle"
    /\ variant \in Variants
    /\ dict_file \in DictFiles
    /\ row_i = 0
    /\ rules = <<>>
    /\ load_pc = "call"
    /\ ruleset = <<>>
    /\ NormalizerIdle

DictNext == LoadOpen \/ LoadRow \/ LoadReturn

SpecDict == DictInit /\ [][DictNext]_vars

\* ------------------------------------------------------- post_process
\* Characters of the texts: a digit, a unit sign, the space, a lower-case
\* Latin letter and a kana; rules bring in an upper-case letter and the
\* full-width percent sign; the pipeline brings in the ideographic comma
\* and full stop.
FWPERCENT == "<fullwidth %>"
TOUTEN == "<touten>"
KUTEN == "<kuten>"
TextChars == {"5", "%", " ", "a", "j"}

IsSpace(c) == c = " "
IsDigit(c) == c = "5"
IsCJK(c) == c = "j"                        \* kanji, hiragana, katakana
IsAlnum(c) == c \in {"5", "a", "b", "B"}   \* [A-Za-z0-9]
IsUnit(c) == c = "%"                       \* the one-character unit

\* the characters of t that keep[i] marks, in order
RECURSIVE KeptFrom(_, _, _)
KeptFrom(t, keep, i) ==
    IF i > Len(t) THEN <<>>
    ELSE (IF keep[i] THEN <<t[i]>> ELSE <<>>) \o KeptFrom(t, keep, i + 1)

\* the first character after / last before position i that is no space
\* ("" when there is none)
NextNonSpace(t, i) ==
    LET later == {j \in (i + 1)..Len(t) : ~IsSpace(t[j])}
    IN  IF later = {} THEN ""
        ELSE t[CHOOSE j \in later : \A k \in later : j <= k]
PrevNonSpace(t, i) ==
    LET earlier == {j \in 1..(i - 1) : ~IsSpace(t[j])}
    IN  IF earlier = {} THEN ""
        ELSE t[CHOOSE j \in earlier : \A k \in earlier : j >= k]

\* neologdn.normalize on these characters: a run of spaces becomes one
\* space, and none at the ends of the text or next to a kana
Neologdn(t) ==
    KeptFrom(t, [i \in 1..Len(t) |->
                   \/ ~IsSpace(t[i])
                   \/ /\ i > 1
                      /\ ~IsSpace(t[i - 1])
                      /\ ~IsCJK(t[i - 1])
                      /\ NextNonSpace(t, i) # ""
                      /\ ~IsCJK(NextNonSpace(t, i))], 1)

\* case folding of re.I
Lower(c) == IF c = "B" THEN "b" ELSE c
SameText(u, v, ignore_case) ==
    /\ Len(u) = Len(v)
    /\ \A i \in 1..Len(u) :
          IF ignore_case THEN Lower(u[i]) = Lower(v[i]) ELSE u[i] = v[i]

\* pattern occurs in t: the patterns of the rules are plain texts, matched
\* without regard to case by re.sub(..., flags=re.I) and exactly by
\* str.replace
Contains(t, pattern, ignore_case) ==
    \E i \in 1..(Len(t) - Len(pattern) + 1) :
        SameText(SubSeq(t, i, i + Len(pattern) - 1), pattern, ignore_case)

\* re.sub / str.replace: the occurrences from left to right, not
\* overlapping
RECURSIVE Replace(_, _, _, _)
Replace(t, pattern, repl, ignore_case) ==
    IF Len(t) < Len(pattern) THEN t
    ELSE IF SameText(SubSeq(t, 1, Len(pattern)), pattern, ignore_case)
    THEN repl \o Replace(SubSeq(t, Len(pattern) + 1, Len(t)), pattern, repl,
                         ignore_case)
    ELSE <<Head(t)>> \o Replace(Tail(t), pattern, repl, ignore_case)

\* line 118, for the rule (pattern, repl, is_rx)
ApplyRule(rule, t) == Replace(t, rule[1], rule[2], rule[3] # 0)
RuleMatches(rule, t) == Contains(t, rule[1], rule[3] # 0)

\* unicodedata.normalize("NFKC", text)
NFKC(t) == [i \in 1..Len(t) |-> IF t[i] = FWPERCENT THEN "%" ELSE t[i]]

\* _unit_gap.sub(r"\1", text): the spaces in front of a unit go
UnitGap(t) ==
    KeptFrom(t, [i \in 1..Len(t) |->
                   ~(IsSpace(t[i]) /\ NextNonSpace(t, i) # ""
                                   /\ IsUnit(NextNonSpace(t, i)))], 1)

\* _normalize_units: of the patterns of _UNIT_PATTERNS the last, digits
\* then spaces then %, is the one these characters can match; the digits
\* and the sign are set one space apart
RECURSIVE SpaceUnits(_, _)
SpaceUnits(prev, t) ==
    IF t = <<>> THEN <<>>
    ELSE (IF IsUnit(Head(t)) /\ IsDigit(prev) THEN <<" ", Head(t)>>
          ELSE <<Head(t)>>) \o SpaceUnits(Head(t), Tail(t))
NormalizeUnits(t) ==
    SpaceUnits("",
        KeptFrom(t, [i \in 1..Len(t) |->
                       ~(/\ IsSpace(t[i])
                         /\ NextNonSpace(t, i) # ""
                         /\ IsUnit(NextNonSpace(t, i))
                         /\ PrevNonSpace(t, i) # ""
                         /\ IsDigit(PrevNonSpace(t, i)))], 1))

\* _CJK_LATIN.sub: a space between a kana and a letter or digit next to
\* it, the pairs taken from left to right
RECURSIVE CjkLatin(_)
CjkLatin(t) ==
    IF Len(t) < 2 THEN t
    ELSE IF \/ IsCJK(t[1]) /\ IsAlnum(t[2])
            \/ IsAlnum(t[1]) /\ IsCJK(t[2])
    THEN <<t[1], " ", t[2]>> \o CjkLatin(SubSeq(t, 3, Len(t)))
    ELSE <<t[1]>> \o CjkLatin(Tail(t))

\* _POST_COMMA_PAT.sub(r"\1、\2", text): a comma between a unit and the
\* non-space character after it, the pairs taken from left to right
RECURSIVE PostComma(_)
PostComma(t) ==
    IF Len(t) < 2 THEN t
    ELSE IF IsUnit(t[1]) /\ ~IsSpace(t[2])
    THEN <<t[1], TOUTEN, t[2]>> \o PostComma(SubSeq(t, 3, Len(t)))
    ELSE <<t[1]>> \o PostComma(Tail(t))

\* _insert_period
PERIOD_LEN == 30
InsertPeriod(t) ==
    IF Len(t) > PERIOD_LEN /\ t[Len(t)] \notin {KUTEN, ".", "<fullwidth !>", "<fullwidth ?>"}
    THEN Append(t, KUTEN) ELSE t

\* re.sub(r"\s+", " ", text).strip()
Collapse(t) ==
    KeptFrom(t, [i \in 1..Len(t) |->
                   \/ ~IsSpace(t[i])
                   \/ /\ i > 1
                      /\ ~IsSpace(t[i - 1])
                      /\ NextNonSpace(t, i) # ""], 1)

\* lines 120-129; src/jp_fixed/main.py has no _CJK_LATIN step
Finish(t, v) ==
    Collapse(InsertPeriod(PostComma(
        IF v = "postprocess" THEN CjkLatin(NormalizeUnits(UnitGap(NFKC(t))))
        ELSE NormalizeUnits(UnitGap(NFKC(t))))))

\* the rules of the (non-empty) lists post_process is given: a literal
\* rule, a regex rule whose pattern matches the first one's replacement,
\* and the rule load_tsv_dict makes of a row with the pattern only
RuleUniverse ==
    { << <<"a">>, <<"B">>, 0 >>,
      << <<"b">>, <<FWPERCENT>>, 1 >>,
      << <<"a">>, <<>>, 0 >> }
RuleSets == UNION {[1..n -> RuleUniverse] : n \in 1..MaxRules}

\* the texts: short ones, and the same with PERIOD_LEN letters after them
Pad == [i \in 1..PERIOD_LEN |-> "a"]
ShortTexts == UNION {[1..n -> TextChars] : n \in 0..MaxTextLen}
InputTexts == ShortTexts \cup {t \o Pad : t \in ShortTexts}

\* line 116
PostNormalize ==
    /\ post_pc = "call"
    /\ text' = Neologdn(text)
    /\ raw_text' = Neologdn(text)
    /\ rule_k' = 0
    /\ fired' = {}
    /\ post_pc' = "rules"
    /\ UNCHANGED <<outputs, loader, entry, config, producer, segmenter, pc,
                   output, in_call, failure>>

\* lines 117-118: one iteration of the for loop
\* (PostRule_on_raw: the faulty variant that applies each rule to the text
\* as it was before the loop)
PostRule_on_raw ==
    /\ post_pc = "rules"
    /\ rule_k < Len(ruleset)
    /\ text' = ApplyRule(ruleset[rule_k + 1], raw_text)
    /\ fired' = IF RuleMatches(ruleset[rule_k + 1], raw_text)
                THEN fired \cup {rule_k + 1} ELSE fired
    /\ rule_k' = rule_k + 1
    /\ UNCHANGED <<raw_text, post_pc, outputs, loader, entry, config,
                   producer, segmenter, pc, output, in_call, failure>>
PostRule ==
    /\ post_pc = "rules"
    /\ rule_k < Len(ruleset)
    /\ text' = ApplyRule(ruleset[rule_k + 1], text)
    /\ fired' = IF RuleMatches(ruleset[rule_k + 1], text)
                THEN fired \cup {rule_k + 1} ELSE fired
    /\ rule_k' = rule_k + 1
    /\ UNCHANGED <<raw_text, post_pc, outputs, loader, entry, config,
                   producer, segmenter, pc, output, in_call, failure>>

\* lines 120-129: the loop is over; the fixed steps and the return
PostFinish ==
    /\ post_pc = "rules"
    /\ rule_k = Len(ruleset)
    /\ text' = Finish(text, variant)
    /\ outputs' = Append(outputs, Finish(text, variant))
    /\ post_pc' = "done"
    /\ UNCHANGED <<raw_text, rule_k, fired, loader, entry, config, producer,
                   segmenter, pc, output, in_call, failure>>

\* post_process is called again, on the string it returned (once)
PostAgain ==
    /\ post_pc = "done"
    /\ Len(outputs) < 2
    /\ post_pc' = "call"
    /\ UNCHANGED <<raw_text, text, rule_k, fired, outputs, loader, entry,
                   config, producer, segmenter, pc, output, in_call, failure>>

\* post_process called on a text with a list of rules, by either copy
TextInit ==
    /\ WAIT_TIMEOUT_MS = None
    /\ mic_levels = LoudLevels
    /\ PipelineInit
    /\ test_wav = FALSE
    /\ main_pc = "idle"
    /\ variant \in Variants
    /\ dict_file = [exists |-> FALSE, rows |-> <<>>]
    /\ row_i = 0
    /\ rules = <<>>
    /\ load_pc = "idle"
    /\ ruleset \in RuleSets
    /\ raw_text = <<>>
    /\ text \in InputTexts
    /\ rule_k = 0
    /\ fired = {}
    /\ post_pc = "call"
    /\ outputs = <<>>

TextNext == PostNormalize \/ PostRule \/ PostFinish \/ PostAgain

SpecText == TextInit /\ [][TextNext]_vars

\* ------------------------------------------------------------- properties
Configured == WAIT_TIMEOUT_MS # None
ChunkMs == speech_len * FRAME_MS          \* duration of the chunk
SilenceRunMs == silent_run * FRAME_MS     \* duration of its closing silence
ChunkOpen == pc = "acc"
ChunkFlushed == pc = "infer"
ChunkDispatched == pc = "transcribing"

\* C1: with a configured timeout T, 0 < T < CHUNK_MS, an open chunk goes on
\* only while its run of non-speech frames is shorter than T; it is flushed
\* by the first frame that brings the run to T or more, and a flush with a
\* shorter run is caused by the duration ceiling.
C1_SilenceFlush ==
    (Configured /\ 0 < WAIT_TIMEOUT_MS /\ WAIT_TIMEOUT_MS < CHUNK_MS) =>
        /\ ChunkOpen => SilenceRunMs < WAIT_TIMEOUT_MS
        /\ ChunkFlushed =>
              \/ /\ SilenceRunMs >= WAIT_TIMEOUT_MS
                 /\ SilenceRunMs - FRAME_MS < WAIT_TIMEOUT_MS
              \/ ChunkMs >= CHUNK_MS

C1_Witness ==
    /\ ChunkFlushed
    /\ WAIT_TIMEOUT_MS = FRAME_MS + 1
    /\ SilenceRunMs = 2 * FRAME_MS
    /\ ChunkMs < CHUNK_MS

\* C2: a chunk all of whose frames are speech stays open only below
\* CHUNK_MS and is flushed by the very frame that brings its duration to
\* CHUNK_MS, whatever the timeout option.
C2_CeilingFlush ==
    /\ (ChunkOpen /\ all_speech) => ChunkMs < CHUNK_MS
    /\ (ChunkFlushed /\ all_speech) =>
          /\ ChunkMs >= CHUNK_MS
          /\ ChunkMs - FRAME_MS < CHUNK_MS
          /\ silence_ms = 0

C2_Witness ==
    /\ ChunkFlushed
    /\ all_speech
    /\ ChunkMs >= CHUNK_MS
    /\ Configured
    /\ WAIT_TIMEOUT_MS > 0

\* C3: a chunk handed to the engine is non-empty and lasts at most
\* CHUNK_MS.
C3_AtMostChunkMs ==
    ChunkDispatched => (speech_len >= 1 /\ ChunkMs <= CHUNK_MS)

\* C6: the timeout of the flush condition is the configured value whenever
\* one is given, and CHUNK_MS only when none is given.
C6_EffectiveTimeout ==
    (ChunkOpen \/ ChunkFlushed) =>
        /\ Configured => limit_ms = WAIT_TIMEOUT_MS
        /\ limit_ms = CHUNK_MS => ~Configured

\* the units enqueued and not yet cut into a frame, oldest first
RECURSIVE Flat(_)
Flat(q) == IF q = <<>> THEN <<>> ELSE Head(q) \o Flat(Tail(q))
InFlight == buf \o Flat(aud_q)
Ascending(b) == \A i \in 1..(Len(b) - 1) : b[i].id < b[i + 1].id

C5_DedupFilter ==
    /\ \A i \in 1..Len(printed) : printed[i] \notin FILLER
    /\ \A i \in 1..(Len(printed) - 1) : printed[i] # printed[i + 1]
    /\ printed # <<>> => last_line = printed[Len(printed)]
    /\ ( /\ pc \notin {"transcribing", "segments"}
         /\ failure # "engine"
         /\ Len(result) = 2
         /\ Candidate(result[1]) = Candidate(result[2])
         /\ Candidate(result[1]) \notin FILLER
         /\ mark = 0 )
       => Len(printed) - mark = 1

\* C7: a block whose mean absolute amplitude is below MIN_LEVEL is never
\* enqueued, so no unit of such a block is buffered, given to the VAD or
\* made part of a chunk.
BelowFloor(b) == \E i \in 1..Len(b) : b[i].level < MIN_LEVEL
C7_GateBeforeVad ==
    /\ \A j \in 1..Len(aud_q) : ~BelowFloor(aud_q[j])
    /\ ~BelowFloor(buf)
    /\ ~BelowFloor(frame)

\* C8: never more than one recognition call in progress; while one is, the
\* transcriber takes no block, cuts no frame and starts no other call; the
\* callback can enqueue in every state of the transcriber (up to the queue
\* cap of the model).
C8_OneCallAtATime ==
    /\ in_call \in {0, 1}
    /\ in_call = 1 => ~ENABLED (Get \/ Scan \/ Accumulate \/ TranscribeCall)
    /\ Len(aud_q) < MaxQueue => ENABLED audio_cb

C8_Witness ==
    /\ in_call = 1
    /\ aud_q # <<>>
    /\ Len(aud_q) < MaxQueue
    /\ Len8(buf) >= BYTES_PER_FRAME

C10_FailFast ==
    failure = "engine" =>
        /\ pc = "dead"
        /\ Len(printed) = mark
        /\ ~ENABLED audio_cb

\* the rows that carry the three required fields, as rules, in file order
ValidRow(row) == ~Skipped(row) /\ Len(row) >= 3 /\ IsIntText(row[3])
MalformedRow(row) == ~Skipped(row) /\ Len(row) < 3
RECURSIVE ValidRules(_)
ValidRules(rows) ==
    IF rows = <<>> THEN <<>>
    ELSE (IF ValidRow(Head(rows))
          THEN << <<Head(rows)[1], Head(rows)[2], IntOf(Head(rows)[3])>> >>
          ELSE <<>>) \o ValidRules(Tail(rows))

\* C11: a row that lacks a required field never ends the load, and a load
\* that is over has returned exactly the rules of the valid rows, in file
\* order (the built-in list when there is none): no malformed row has
\* contributed a rule.
C11_SkipMalformed ==
    /\ load_pc = "raised" => ~MalformedRow(dict_file.rows[row_i])
    /\ (load_pc = "done" /\ dict_file.exists) =>
          ruleset = IF ValidRules(dict_file.rows) = <<>>
                    THEN FALLBACK_DICT ELSE ValidRules(dict_file.rows)

\* a row the loader makes a rule of
UsableRow(row) == ~Skipped(row) /\ IsIntText(Padded(row)[3])

C13_BatchMode ==
    /\ test_wav =>
          /\ main_pc # "live"
          /\ pc = "get" /\ aud_q = <<>> /\ put_id = 0
          /\ in_call \in {0, 1}
          /\ in_call = 1 <=> main_pc = "batch_call"
    /\ (~test_wav /\ main_pc # "start") => main_pc = "live"
    /\ (test_wav /\ main_pc \in {"done", "dead"} /\ failure # "engine") =>
          /\ Len(printed) = Len(result)
          /\ \A i \in 1..Len(printed) :
                printed[i] = Marked(Candidate(result[i]))

\* C14: the rules are applied one after the other, each to the text the
\* one before it left: when a rule A has matched and its replacement
\* matches the pattern of a later rule B (and of no rule between them),
\* then B has matched too, right after B's turn the text holds B's
\* replacement and no match of B's pattern, and the returned string holds
\* B's replacement (in NFKC form).
C14_Sequential ==
    \A i \in 1..rule_k : \A j \in (i + 1)..rule_k :
        ( /\ i \in fired
          /\ ruleset[i][2] # <<>>
          /\ RuleMatches(ruleset[j], ruleset[i][2])
          /\ \A m \in (i + 1)..(j - 1) :
                ~RuleMatches(ruleset[m], ruleset[i][2]) )
        => /\ j \in fired
           /\ (post_pc = "rules" /\ rule_k = j) =>
                 /\ Contains(text, ruleset[j][2], FALSE)
                 /\ ~RuleMatches(ruleset[j], text)
           /\ post_pc = "done" =>
                 Contains(text, NFKC(ruleset[j][2]), FALSE)

C14_Witness ==
    /\ post_pc = "done"
    /\ Len(outputs) = 1
    /\ Len(ruleset) = 2
    /\ RuleMatches(ruleset[2], ruleset[1][2])
    /\ fired = {1, 2}
    /\ ~RuleMatches(ruleset[2], raw_text)

\* C15: a second run of post_process on the string it returned, with the
\* same rules, returns that string.
C15_Idempotent ==
    \A i \in 2..Len(outputs) : outputs[i] = outputs[i - 1]

\* C16: while no chunk is open a frame is cut from the oldest bytes in
\* flight and either is dropped, which leaves every variable of the chunk as
\* it was and no chunk open, or opens a chunk of that one frame with no
\* silence counted, the frame being one the VAD called speech; a chunk is
\* opened by the scan loop only and grows by one frame at a time, each the
\* oldest bytes in flight, so its first frame stays the speech frame and
\* its frames follow each other in the stream.
C16_IdleToChunk ==
    /\ [](ChunkOpen /\ speech_len = 1
            => all_speech /\ silent_run = 0 /\ silence_ms = 0)
    /\ [][(pc = "scan" /\ Len(InFlight') < Len(InFlight)) =>
            \/ /\ pc' = "scan"
               /\ UNCHANGED <<speech_len, silence_ms, limit_ms, all_speech,
                              silent_run>>
            \/ /\ pc' = "acc"
               /\ speech_len' = 1
               /\ all_speech'
               /\ silence_ms' = 0]_vars
    /\ [][speech_len' # speech_len =>
            \/ pc = "scan" /\ speech_len' = 1
            \/ pc = "acc" /\ speech_len' = speech_len + 1]_vars
    /\ [][Len(InFlight') < Len(InFlight) =>
            /\ frame' = SubSeq(InFlight, 1, Len(frame'))
            /\ Len(InFlight') = Len(InFlight) - Len(frame')]_vars

C16_Witness ==
    /\ ChunkOpen
    /\ speech_len = 1
    /\ Len8(frame) = BYTES_PER_FRAME
    /\ buf # <<>>
    /\ aud_q # <<>>

\* C17: silence_ms is at all times FRAME_MS times the number of non-speech
\* frames in a row at the end of the chunk, and every frame cut while a
\* chunk is open is appended to it, whatever the VAD says of it.
C17_SilenceRun ==
    /\ [](silence_ms = SilenceRunMs)
    /\ [][(pc = "acc" /\ Len(InFlight') < Len(InFlight)) =>
            speech_len' = speech_len + 1]_vars

C17_Witness ==
    /\ ChunkOpen
    /\ ~all_speech
    /\ silent_run = 0
    /\ silence_ms = 0

\* C18: with the timeout option omitted no chunk is flushed by its silence
\* run: at every flush the run is below the limit and the duration ceiling
\* is reached, and every chunk flushed or dispatched has the same number of
\* frames, the least n with n * FRAME_MS >= CHUNK_MS.
C18_FixedDuration ==
    ~Configured =>
        /\ ChunkFlushed => silence_ms < limit_ms /\ ChunkMs >= CHUNK_MS
        /\ (ChunkFlushed \/ ChunkDispatched) =>
              speech_len = (CHUNK_MS + FRAME_MS - 1) \div FRAME_MS

C18_Witness ==
    /\ ~Configured
    /\ ChunkDispatched
    /\ ~all_speech
    /\ silent_run > 1

\* C20: every frame given to the VAD or appended to a chunk has exactly
\* BYTES_PER_FRAME bytes.
C20_FullFrames ==
    frame # <<>> => Len8(frame) = BYTES_PER_FRAME

\* C19: an open chunk is in the end flushed, dispatched and followed by
\* the scan loop again (unless the recognition call raised).
SegmenterIdle == pc \in {"get", "scan"}
C19_EventuallyIdle ==
    ChunkOpen ~> (SegmenterIdle \/ failure = "engine")

====
